---- MODULE Spec2Model ----
(***************************************************************************)
(* Model of the Key Vault secret facade: the error normalizer              *)
(* checkAzErrResp, the errors package constructors, and the List and Get   *)
(* operations of KeyVaultSecretsManager run as concurrent invocations on   *)
(* one shared KeyVaultClient.                                              *)
(***************************************************************************)
EXTENDS Integers, Sequences, FiniteSets, TLC

(* ---------------------------------------------------------------- bounds *)

\* Pages one List invocation fetches at most (the pager reports no more after that).
MaxPages == 2

\* Items one List invocation receives at most, over all its pages.
MaxItems == 2

\* Concurrent invocations on the one client.
Procs == {1, 2}

\* Names given to Get, names of the secrets the backend lists, vault names.
SecretNames == {"k"}
ItemNames == {"a", "b"}
VaultNames == {"kv"}

\* Expiry timestamps the backend sends when the attribute is present.
ExpiryTimes == {7}

\* Secret payloads the backend sends.
SecretValues == {"v"}

\* Messages of decodable backend error envelopes, descriptions of plain errors,
\* texts of json decode failures.
BackendMessages == {"denied"}
ErrDescs == {"context canceled"}
DecodeErrs == {"EOF"}

(* ------------------------------------------------------- net/http statuses *)

StatusNotFound == 404
StatusUnauthorized == 401
StatusForbidden == 403
StatusInternalServerError == 500

\* Transport statuses of backend error envelopes.
Statuses == {400, StatusUnauthorized, StatusForbidden, StatusNotFound,
             StatusInternalServerError}

(* --------------------------------------------------------- errors package *)

ErrCodeInternalServerError == "INTERNAL_SERVER_ERROR"
ErrCodeNotFound == "NOT_FOUND"
ErrCodeUnathorized == "UNAUTHORIZED"
ErrCodeInsufficientAccess == "INSUFFICIENT_ACCESS"

\* A nil *errors.Error.
NilError == [nil |-> TRUE, code |-> "", status |-> 0, message |-> "", traceId |-> ""]

\* fmt.Sprintf for the verbs the formats use: every "%s" / "%v" piece of the
\* format is replaced by the next argument, the pieces are concatenated.
RECURSIVE Sprintf(_, _)
Sprintf(format, a) ==
    IF format = <<>> THEN ""
    ELSE IF Head(format) \in {"%s", "%v"}
         THEN (IF a = <<>> THEN "%!(MISSING)" ELSE Head(a))
              \o Sprintf(Tail(format), IF a = <<>> THEN a ELSE Tail(a))
         ELSE Head(format) \o Sprintf(Tail(format), a)

InternalServerError(message) ==
    [nil |-> FALSE, code |-> ErrCodeInternalServerError,
     status |-> StatusInternalServerError, message |-> message, traceId |-> ""]

InternalServerErrorf_ZeroStatus(format, a) ==
    [nil |-> FALSE, code |-> ErrCodeInternalServerError,
     status |-> 0, message |-> Sprintf(format, a), traceId |-> ""]

InternalServerErrorf(format, a) ==
    [nil |-> FALSE, code |-> ErrCodeInternalServerError,
     status |-> StatusInternalServerError, message |-> Sprintf(format, a), traceId |-> ""]

NotFoundError_WrongStatus(message) ==
    [nil |-> FALSE, code |-> ErrCodeNotFound,
     status |-> StatusInternalServerError, message |-> message, traceId |-> ""]

NotFoundError(message) ==
    [nil |-> FALSE, code |-> ErrCodeNotFound,
     status |-> StatusNotFound, message |-> message, traceId |-> ""]

UnAuthorizedError(message) ==
    [nil |-> FALSE, code |-> ErrCodeUnathorized,
     status |-> StatusUnauthorized, message |-> message, traceId |-> ""]

ForbiddenError(message) ==
    [nil |-> FALSE, code |-> ErrCodeInsufficientAccess,
     status |-> StatusForbidden, message |-> message, traceId |-> ""]

(* ------------------------------------------------------------- raw errors *)

\* The body of an azcore.ResponseError's raw response, by what json decoding
\* makes of it: a decode error, or an AzErrorResponse with error.message.
Bodies ==
    {[ok |-> FALSE, message |-> "", decodeErr |-> d] : d \in DecodeErrs}
    \cup {[ok |-> TRUE, message |-> m, decodeErr |-> ""] : m \in BackendMessages}

NoBody == [ok |-> FALSE, message |-> "", decodeErr |-> ""]

\* A nil error.
NilRaw == [kind |-> "nil", desc |-> "", status |-> 0, body |-> NoBody]

\* Errors that are no azcore.ResponseError (transport or local failures).
PlainErrors == {[kind |-> "plain", desc |-> d, status |-> 0, body |-> NoBody] : d \in ErrDescs}

\* azcore.ResponseError values: a transport status and a response body.
ResponseErrors ==
    {[kind |-> "resp", desc |-> "", status |-> s, body |-> b] : s \in Statuses, b \in Bodies}

RawErrors == PlainErrors \cup ResponseErrors

(* --------------------------------------------------------- checkAzErrResp *)

decodeErrFmt == <<"Unable to decode the azure error response: ", "%v">>

statusSwitch_ForbiddenAsUnauthorized(statusCode, errMsg) ==
    IF statusCode = StatusNotFound THEN NotFoundError("")
    ELSE IF statusCode = StatusUnauthorized THEN UnAuthorizedError(errMsg)
    ELSE IF statusCode = StatusForbidden THEN UnAuthorizedError(errMsg)
    ELSE InternalServerError(errMsg)

statusSwitch_KeepsNotFoundMessage(statusCode, errMsg) ==
    IF statusCode = StatusNotFound THEN NotFoundError(errMsg)
    ELSE IF statusCode = StatusUnauthorized THEN UnAuthorizedError(errMsg)
    ELSE IF statusCode = StatusForbidden THEN ForbiddenError(errMsg)
    ELSE InternalServerError(errMsg)

\* The switch on statusCode that ends checkAzErrResp.
statusSwitch(statusCode, errMsg) ==
    IF statusCode = StatusNotFound THEN NotFoundError("")
    ELSE IF statusCode = StatusUnauthorized THEN UnAuthorizedError(errMsg)
    ELSE IF statusCode = StatusForbidden THEN ForbiddenError(errMsg)
    ELSE InternalServerError(errMsg)

checkAzErrResp(err) ==
    IF err.kind = "nil" THEN NilError
    ELSE IF err.kind = "resp"
         THEN IF ~err.body.ok
              THEN InternalServerErrorf(decodeErrFmt, <<err.body.decodeErr>>)
              ELSE statusSwitch(err.status, err.body.message)
         ELSE statusSwitch(0, err.desc)

(* ------------------------------------------------------- domain and client *)

keyVaultURLFmt == <<"https://", "%s", ".vault.azure.net">>
secretNotFoundErrMsgFmt ==
    <<"A secret with name (", "%s", ") was not found in the KeyVault (", "%s", ")">>

\* The zero time.Time, the Expiration of a Secret that was given none.
ZeroTime == 0

\* A nil *time.Time and a set one.
NoExpiry == [nil |-> TRUE, t |-> ZeroTime]
Expiries == {NoExpiry} \cup {[nil |-> FALSE, t |-> t] : t \in ExpiryTimes}

\* The KeyVaultClient of a vault: its fields as they are after construction.
KeyVaultClient(vault) ==
    [ctx |-> "ctx", name |-> vault, url |-> Sprintf(keyVaultURLFmt, <<vault>>),
     secretsClient |-> "secretsClient"]

\* A nil []Secret, and append on a []Secret.
NilSlice == [nil |-> TRUE, items |-> <<>>]
AppendSecret(s, x) == [nil |-> FALSE, items |-> Append(s.items, x)]

\* A nil *Secret.
NilSecret == [nil |-> TRUE, name |-> "", value |-> "", expiration |-> ZeroTime]

\* Items of a ListSecretPropertiesResponse page: an ID (the secret's URL, by
\* its segments) and Attributes.Expires.
SecretID(vault, n) == <<Sprintf(keyVaultURLFmt, <<vault>>), "secrets", n>>
Items(vault) == {[id |-> SecretID(vault, n), expires |-> e] : n \in ItemNames, e \in Expiries}

\* azsecrets ID.Name(): the segment after "secrets".
IDName(id) == id[3]

SeqsUpTo(S, n) == UNION {[1..k -> S] : k \in 0..n}

\* Successful GetSecret responses: Value and Attributes.Expires.
GetResponses == {[value |-> v, expires |-> e] : v \in SecretValues, e \in Expiries}
NoGetResponse == [value |-> "", expires |-> NoExpiry]

(* ------------------------------------------------------------ entity mapper *)

\* The Secret List builds of one page item (Expires is dereferenced by the caller).
ListSecret(item) == [name |-> IDName(item.id), value |-> "", expiration |-> item.expires.t]

\* The range loop of List over one page: appends one Secret per item; the
\* dereference of a nil Expires panics and leaves the loop.
RECURSIVE rangePage(_, _)
rangePage(secs, page) ==
    IF page = <<>> THEN [panicked |-> FALSE, secrets |-> secs]
    ELSE IF Head(page).expires.nil THEN [panicked |-> TRUE, secrets |-> secs]
    ELSE rangePage(AppendSecret(secs, ListSecret(Head(page))), Tail(page))

\* The Secret Get builds of a successful response.
GetSecretOf(name, resp) ==
    [nil |-> FALSE, name |-> name, value |-> resp.value, expiration |-> resp.expires.t]

getError_RewritesAlways(err, name, vault) ==
    [err EXCEPT !.message = Sprintf(secretNotFoundErrMsgFmt, <<name, vault>>)]

getError_SwapsArguments(err, name, vault) ==
    IF err.status = StatusNotFound
    THEN [err EXCEPT !.message = Sprintf(secretNotFoundErrMsgFmt, <<vault, name>>)]
    ELSE err

\* The error Get returns of a normalized error: the message of a 404 is rewritten.
getError(err, name, vault) ==
    IF err.status = StatusNotFound
    THEN [err EXCEPT !.message = Sprintf(secretNotFoundErrMsgFmt, <<name, vault>>)]
    ELSE err

(* -------------------------------------------------------------------- state *)

VARIABLES
    client,    \* the shared KeyVaultClient
    pc,        \* each invocation's position
    op,        \* each invocation's operation: "List", "Get", "checkAzErrResp"
    arg,       \* the name given to Get
    secrets,   \* List's local slice
    fetched,   \* pages the invocation's pager has fetched
    lastCall,  \* the pager call issued last: "none", "More:true", "More:false", "NextPage"
    inflight,  \* NextPage calls issued and not yet returned
    calls,     \* backend calls issued (More, NextPage, GetSecret)
    rawErr,    \* the raw error the invocation was given (NilRaw: none)
    seen,      \* the items the invocation's page fetches returned, in order
    getResp,   \* the successful response GetSecret returned
    result     \* what the invocation returned: [val, err]

vars == <<client, pc, op, arg, secrets, fetched, lastCall, inflight, calls,
          rawErr, seen, getResp, result>>

NoResult == [val |-> NilSlice, err |-> NilError]

Init ==
    /\ \E v \in VaultNames : client = KeyVaultClient(v)
    /\ pc = [p \in Procs |-> "idle"]
    /\ op = [p \in Procs |-> "none"]
    /\ arg = [p \in Procs |-> ""]
    /\ secrets = [p \in Procs |-> NilSlice]
    /\ fetched = [p \in Procs |-> 0]
    /\ lastCall = [p \in Procs |-> "none"]
    /\ inflight = [p \in Procs |-> 0]
    /\ calls = [p \in Procs |-> 0]
    /\ rawErr = [p \in Procs |-> NilRaw]
    /\ seen = [p \in Procs |-> <<>>]
    /\ getResp = [p \in Procs |-> NoGetResponse]
    /\ result = [p \in Procs |-> NoResult]

storeSecrets_Shared(f, p, v) == [q \in DOMAIN f |-> v]

\* An assignment to the invocation's local slice.
storeSecrets(f, p, v) == [f EXCEPT ![p] = v]

(* --------------------------------------------------------------------- List *)

\* var secrets []Secret; pager := NewListSecretPropertiesPager(nil)
ListStart(p) ==
    /\ pc[p] = "idle"
    /\ op' = [op EXCEPT ![p] = "List"]
    /\ secrets' = storeSecrets(secrets, p, NilSlice)
    /\ pc' = [pc EXCEPT ![p] = "more"]
    /\ UNCHANGED <<client, arg, fetched, lastCall, inflight, calls, rawErr, seen,
                   getResp, result>>

\* runtime.Pager.More(): true before the first page is fetched, afterwards
\* whether the page fetched last links to a next one.
PagerMore(n) == IF n = 0 THEN {TRUE} ELSE IF n < MaxPages THEN {TRUE, FALSE} ELSE {FALSE}

\* for pager.More() { ... }; return secrets, nil
ListMore(p) ==
    /\ pc[p] = "more"
    /\ \E more \in PagerMore(fetched[p]) :
        /\ lastCall' = [lastCall EXCEPT ![p] = IF more THEN "More:true" ELSE "More:false"]
        /\ IF more
           THEN /\ pc' = [pc EXCEPT ![p] = "next"]
                /\ UNCHANGED result
           ELSE /\ pc' = [pc EXCEPT ![p] = "done"]
                /\ result' = [result EXCEPT ![p] = [val |-> secrets[p], err |-> NilError]]
    /\ calls' = [calls EXCEPT ![p] = @ + 1]
    /\ UNCHANGED <<client, op, arg, secrets, fetched, inflight, rawErr, seen, getResp>>

\* page, err := pager.NextPage(ctx): the call is issued
ListNextPageCall(p) ==
    /\ pc[p] = "next"
    /\ pc' = [pc EXCEPT ![p] = "await"]
    /\ inflight' = [inflight EXCEPT ![p] = @ + 1]
    /\ calls' = [calls EXCEPT ![p] = @ + 1]
    /\ lastCall' = [lastCall EXCEPT ![p] = "NextPage"]
    /\ UNCHANGED <<client, op, arg, secrets, fetched, rawErr, seen, getResp, result>>

afterNextPageErr_Continues == "more"

\* Where List goes when NextPage returned an error: it returns.
afterNextPageErr == "done"

\* NextPage returned an error: return nil, checkAzErrResp(err)
ListNextPageFail(p) ==
    /\ pc[p] = "await"
    /\ \E raw \in RawErrors :
        /\ rawErr' = [rawErr EXCEPT ![p] = raw]
        /\ result' = [result EXCEPT ![p] = [val |-> NilSlice, err |-> checkAzErrResp(raw)]]
    /\ inflight' = [inflight EXCEPT ![p] = @ - 1]
    /\ pc' = [pc EXCEPT ![p] = afterNextPageErr]
    /\ UNCHANGED <<client, op, arg, secrets, fetched, lastCall, calls, seen, getResp>>

\* NextPage returned a page: for _, secret := range page.Value { append }
ListNextPageOk(p) ==
    /\ pc[p] = "await"
    /\ \E page \in SeqsUpTo(Items(client.name), MaxItems - Len(seen[p])) :
        LET r == rangePage(secrets[p], page) IN
        /\ seen' = [seen EXCEPT ![p] = @ \o page]
        /\ secrets' = storeSecrets(secrets, p, r.secrets)
        /\ pc' = [pc EXCEPT ![p] = IF r.panicked THEN "panicked" ELSE "more"]
    /\ inflight' = [inflight EXCEPT ![p] = @ - 1]
    /\ fetched' = [fetched EXCEPT ![p] = @ + 1]
    /\ UNCHANGED <<client, op, arg, lastCall, calls, rawErr, getResp, result>>

(* ---------------------------------------------------------------------- Get *)

\* resp, getErr := GetSecret(ctx, name, "", nil): the call is issued
GetCall(p) ==
    /\ pc[p] = "idle"
    /\ op' = [op EXCEPT ![p] = "Get"]
    /\ \E n \in SecretNames : arg' = [arg EXCEPT ![p] = n]
    /\ pc' = [pc EXCEPT ![p] = "getawait"]
    /\ calls' = [calls EXCEPT ![p] = @ + 1]
    /\ UNCHANGED <<client, secrets, fetched, lastCall, inflight, rawErr, seen, getResp,
                   result>>

\* GetSecret returned an error
GetFail(p) ==
    /\ pc[p] = "getawait"
    /\ \E raw \in RawErrors :
        /\ rawErr' = [rawErr EXCEPT ![p] = raw]
        /\ result' = [result EXCEPT ![p] =
               [val |-> NilSecret, err |-> getError(checkAzErrResp(raw), arg[p], client.name)]]
    /\ pc' = [pc EXCEPT ![p] = "done"]
    /\ UNCHANGED <<client, op, arg, secrets, fetched, lastCall, inflight, calls, seen,
                   getResp>>

\* GetSecret returned a secret: the dereference of a nil Expires panics
GetOk(p) ==
    /\ pc[p] = "getawait"
    /\ \E resp \in GetResponses :
        /\ getResp' = [getResp EXCEPT ![p] = resp]
        /\ IF resp.expires.nil
           THEN /\ pc' = [pc EXCEPT ![p] = "panicked"]
                /\ UNCHANGED result
           ELSE /\ pc' = [pc EXCEPT ![p] = "done"]
                /\ result' = [result EXCEPT ![p] =
                       [val |-> GetSecretOf(arg[p], resp), err |-> NilError]]
    /\ UNCHANGED <<client, op, arg, secrets, fetched, lastCall, inflight, calls, rawErr,
                   seen>>

(* ----------------------------------------------------------- checkAzErrResp *)

\* A call of checkAzErrResp on an error or on nil.
CheckAzErrResp(p) ==
    /\ pc[p] = "idle"
    /\ op' = [op EXCEPT ![p] = "checkAzErrResp"]
    /\ \E raw \in RawErrors \cup {NilRaw} :
        /\ rawErr' = [rawErr EXCEPT ![p] = raw]
        /\ result' = [result EXCEPT ![p] = [val |-> NilSlice, err |-> checkAzErrResp(raw)]]
    /\ pc' = [pc EXCEPT ![p] = "done"]
    /\ UNCHANGED <<client, arg, secrets, fetched, lastCall, inflight, calls, seen, getResp>>

(* ------------------------------------------------------------ specification *)

\* An invocation is made.
Invoke(p) ==
    \/ ListStart(p)
    \/ GetCall(p)
    \/ CheckAzErrResp(p)

\* A running invocation takes its next step.
Step(p) ==
    \/ ListMore(p)
    \/ ListNextPageCall(p)
    \/ ListNextPageFail(p)
    \/ ListNextPageOk(p)
    \/ GetFail(p)
    \/ GetOk(p)

Next == \E p \in Procs : Invoke(p) \/ Step(p)

Spec == Init /\ [][Next]_vars

\* One invocation on the client, which keeps running once made: the backend
\* call it waits for returns.
SingleNext == Invoke(1) \/ Step(1)

SingleFairSpec == Init /\ [][SingleNext]_vars /\ WF_vars(Step(1))

Finished(p) == pc[p] \in {"done", "panicked"}

TypeOK ==
    /\ pc \in [Procs -> {"idle", "more", "next", "await", "getawait", "done", "panicked"}]
    /\ op \in [Procs -> {"none", "List", "Get", "checkAzErrResp"}]
    /\ \A p \in Procs : Len(seen[p]) <= MaxItems /\ fetched[p] <= MaxPages

(* ------------------------------------------------------------------ claims *)

Returned(p) == pc[p] = "done"
Failed(p) == rawErr[p] /= NilRaw

\* The code the normalizer is to give a raw error: by the status of a decodable
\* envelope, INTERNAL_SERVER_ERROR for everything else.
ExpectedCode(raw) ==
    IF raw.kind = "resp" /\ raw.body.ok
    THEN CASE raw.status = 404 -> "NOT_FOUND"
           [] raw.status = 401 -> "UNAUTHORIZED"
           [] raw.status = 403 -> "INSUFFICIENT_ACCESS"
           [] OTHER -> "INTERNAL_SERVER_ERROR"
    ELSE "INTERNAL_SERVER_ERROR"

UndecodableEnvelope(p) == rawErr[p].kind = "resp" /\ ~rawErr[p].body.ok

\* C2 (as amended): for an envelope whose body cannot be decoded the normalizer
\* returns INTERNAL_SERVER_ERROR with the message "Unable to decode the azure
\* error response: " followed by the decode error's text, and with status 500,
\* whatever the envelope's transport status was.
C2_DecodeFailure ==
    \A p \in Procs :
        (Returned(p) /\ UndecodableEnvelope(p)) =>
            /\ result[p].err.code = "INTERNAL_SERVER_ERROR"
            /\ result[p].err.message =
                   "Unable to decode the azure error response: " \o rawErr[p].body.decodeErr
            /\ result[p].err.status = 500

\* C2 as the claim states it: the status of that error is absent/zero.
C2_DecodeFailureStatusZero ==
    \A p \in Procs :
        (Returned(p) /\ UndecodableEnvelope(p)) =>
            /\ result[p].err.code = "INTERNAL_SERVER_ERROR"
            /\ result[p].err.message =
                   "Unable to decode the azure error response: " \o rawErr[p].body.decodeErr
            /\ result[p].err.status = 0

C2_Witness ==
    \E p \in Procs :
        /\ Returned(p) /\ op[p] = "checkAzErrResp" /\ UndecodableEnvelope(p)
        /\ rawErr[p].status = 404
        /\ result[p].err.message = "Unable to decode the azure error response: EOF"

NotFoundMessage(name, vault) ==
    "A secret with name (" \o name \o ") was not found in the KeyVault (" \o vault \o ")"

\* C3: the error Get returns on a backend failure is the normalized error with
\* its message rewritten to the not-found message of the name and the vault if
\* and only if the normalized code is NOT_FOUND; for every other code it is the
\* normalized error, unchanged in code, status, message and traceId.
C3_GetRewrite ==
    \A p \in Procs :
        (Returned(p) /\ op[p] = "Get" /\ Failed(p)) =>
            LET n == checkAzErrResp(rawErr[p]) IN
            /\ result[p].val.nil
            /\ IF n.code = "NOT_FOUND"
               THEN result[p].err =
                        [n EXCEPT !.message = NotFoundMessage(arg[p], client.name)]
               ELSE result[p].err = n

C3_Witness ==
    \E p, q \in Procs :
        /\ Returned(p) /\ op[p] = "Get" /\ rawErr[p].kind = "resp" /\ rawErr[p].body.ok
        /\ rawErr[p].status = 404
        /\ result[p].err.message = "A secret with name (k) was not found in the KeyVault (kv)"
        /\ Returned(q) /\ op[q] = "Get" /\ rawErr[q].kind = "resp" /\ rawErr[q].body.ok
        /\ rawErr[q].status = 401
        /\ result[q].err.message = "denied"

SecretNamesOf(items) == [i \in 1..Len(items) |-> items[i].name]
ItemNamesOf(items) == [i \in 1..Len(items) |-> IDName(items[i].id)]

\* C4: List is all-or-nothing and order-preserving: when every page fetch
\* succeeded List returns one Secret per item of all pages, in backend order;
\* when a page fetch failed it returns no list and the normalized error of
\* that failure.
C4_ListAllOrNothing ==
    \A p \in Procs :
        (op[p] = "List" /\ pc[p] \in {"done", "panicked"}) =>
            IF Failed(p)
            THEN /\ result[p].val.nil /\ result[p].val.items = <<>>
                 /\ result[p].err = checkAzErrResp(rawErr[p])
            ELSE /\ Returned(p)
                 /\ result[p].err.nil
                 /\ SecretNamesOf(result[p].val.items) = ItemNamesOf(seen[p])

\* C5: every invocation of Get and of List returns a value or a normalized
\* error, never both and never neither.
C5_ValueXorError ==
    \A p \in Procs :
        (op[p] \in {"Get", "List"} /\ pc[p] \in {"done", "panicked"}) =>
            /\ Returned(p)
            /\ (~result[p].val.nil) /= (~result[p].err.nil)

ExpirationOf(expires) == IF expires.nil THEN ZeroTime ELSE expires.t

\* C6: with an absent expiry attribute Get and List still complete, and the
\* Secret has the zero expiration; with a present one it has that expiry.
C6_AbsentExpiryHandled ==
    \A p \in Procs :
        (pc[p] \in {"done", "panicked"} /\ ~Failed(p)) =>
            /\ op[p] = "Get" =>
                /\ Returned(p)
                /\ result[p].val.expiration = ExpirationOf(getResp[p].expires)
            /\ op[p] = "List" =>
                /\ Returned(p)
                /\ Len(result[p].val.items) = Len(seen[p])
                /\ \A i \in 1..Len(seen[p]) :
                       result[p].val.items[i].expiration = ExpirationOf(seen[p][i].expires)

\* C7: the normalized message is empty for status 404, the backend's message
\* for every other status of a decodable envelope, and the raw error's own
\* description for an error without envelope.
C7_MessagePolicy ==
    \A p \in Procs :
        (Returned(p) /\ op[p] \in {"checkAzErrResp", "List"} /\ Failed(p)) =>
            /\ (rawErr[p].kind = "resp" /\ rawErr[p].body.ok /\ rawErr[p].status = 404)
                   => result[p].err.message = ""
            /\ (rawErr[p].kind = "resp" /\ rawErr[p].body.ok /\ rawErr[p].status /= 404)
                   => result[p].err.message = rawErr[p].body.message
            /\ rawErr[p].kind = "plain" => result[p].err.message = rawErr[p].desc

C7_Witness ==
    \E p, q \in Procs :
        /\ Returned(p) /\ rawErr[p].kind = "resp" /\ rawErr[p].body.ok
        /\ rawErr[p].status = 404 /\ rawErr[p].body.message = "denied"
        /\ op[p] = "checkAzErrResp" /\ result[p].err.message = ""
        /\ Returned(q) /\ op[q] = "List" /\ rawErr[q].kind = "plain"
        /\ result[q].err.message = "context canceled"

\* What an invocation gives when it runs alone against the responses it got.
AloneList(p) ==
    LET r == rangePage(NilSlice, seen[p]) IN
    IF r.panicked THEN pc[p] = "panicked"
    ELSE /\ Returned(p)
         /\ result[p] = IF Failed(p)
                        THEN [val |-> NilSlice, err |-> checkAzErrResp(rawErr[p])]
                        ELSE [val |-> r.secrets, err |-> NilError]

AloneGet(p) ==
    IF Failed(p)
    THEN /\ Returned(p)
         /\ result[p] = [val |-> NilSecret,
                         err |-> getError(checkAzErrResp(rawErr[p]), arg[p], client.name)]
    ELSE IF getResp[p].expires.nil THEN pc[p] = "panicked"
    ELSE /\ Returned(p)
         /\ result[p] = [val |-> GetSecretOf(arg[p], getResp[p]), err |-> NilError]

Isolated ==
    \A p \in Procs :
        /\ (op[p] = "List" /\ pc[p] \in {"done", "panicked"}) => AloneList(p)
        /\ (op[p] = "Get" /\ pc[p] \in {"done", "panicked"}) => AloneGet(p)
        /\ (op[p] = "List" /\ pc[p] \in {"more", "next", "await"}) =>
               secrets[p] = rangePage(NilSlice, seen[p]).secrets

\* C8: Get and List never modify a field of the shared client, and under every
\* interleaving each invocation ends as it would when run alone against the
\* backend responses it received.
C8_NoInterference == [][client' = client]_vars /\ []Isolated

C8_Witness ==
    /\ op[1] = "List" /\ op[2] = "List" /\ Returned(1) /\ Returned(2)
    /\ fetched[1] = 2 /\ fetched[2] = 2
    /\ Len(result[1].val.items) = 2 /\ Len(result[2].val.items) = 1
    /\ result[1].val.items[1].name /= result[2].val.items[1].name

\* C9: in a List invocation NextPage is issued only right after More() said
\* true and with no fetch outstanding; once a fetch has failed no backend call
\* follows and List has returned; after More() said false List has returned;
\* and every List invocation ends.
C9_SequentialFetch ==
    /\ [][\A p \in Procs :
             /\ inflight'[p] > inflight[p] => (lastCall[p] = "More:true" /\ inflight[p] = 0)
             /\ (op[p] = "List" /\ Failed(p)) => (calls'[p] = calls[p] /\ pc'[p] = "done")]_vars
    /\ [](\A p \in Procs :
             /\ inflight[p] \in {0, 1}
             /\ (op[p] = "List" /\ Failed(p)) => Returned(p)
             /\ lastCall[p] = "More:false" => Returned(p))
    /\ \A p \in Procs : (op[p] = "List") ~> (pc[p] \in {"done", "panicked"})

C9_Witness ==
    \E p \in Procs :
        /\ op[p] = "List" /\ Returned(p) /\ Failed(p)
        /\ fetched[p] = 1 /\ calls[p] = 4 /\ lastCall[p] = "NextPage"

StatusOfCode(code) ==
    CASE code = "NOT_FOUND" -> 404
      [] code = "UNAUTHORIZED" -> 401
      [] code = "INSUFFICIENT_ACCESS" -> 403
      [] code = "INTERNAL_SERVER_ERROR" -> 500

\* C10: every normalized error has the status of its code (404, 401, 403, 500)
\* and an empty traceId, whatever the raw transport status was; and the error
\* of Get carries the rewritten not-found message exactly when its code is
\* NOT_FOUND.
C10_StatusByCode ==
    \A p \in Procs :
        (Returned(p) /\ ~result[p].err.nil) =>
            /\ result[p].err.status = StatusOfCode(result[p].err.code)
            /\ result[p].err.traceId = ""
            /\ op[p] = "Get" =>
                   ((result[p].err.message = NotFoundMessage(arg[p], client.name))
                        <=> result[p].err.code = "NOT_FOUND")

C10_Witness ==
    \E p, q \in Procs :
        /\ Returned(p) /\ rawErr[p].kind = "resp" /\ rawErr[p].body.ok
        /\ rawErr[p].status = 400 /\ result[p].err.status = 500
        /\ Returned(q) /\ op[q] = "Get" /\ rawErr[q].kind = "resp" /\ rawErr[q].status = 404
        /\ rawErr[q].body.ok /\ result[q].err.status = 404

====
